---- MODULE Spec2Model ----
(***************************************************************************)
(* A model of pymer's k-mer counters: the k-mer codec, the exact array     *)
(* counter (ExactKmerCounter), the count-min sketch counter                *)
(* (CountMinKmerCounter) and the two (de)serialisers of BaseCounter (the   *)
(* YAML one of pymer/__init__.py and the HDF5 one of pymer/base.py).       *)
(***************************************************************************)
EXTENDS Integers, Sequences, FiniteSets, TLC

VARIABLES
    kind,       \* which part of the library the run exercises
    counters,   \* exact counters by name: [k, array], array indexed by k-mer id
    sketch,     \* the sketch counter: [k, num_tables, table_size, array]
    digest,     \* xxh64's digest of each (seed, k-mer id) the inputs produce
    truth,      \* the true number of observations of each k-mer consumed
    last,       \* the most recent call: its operation, arguments and outcome
    snap,       \* the counter as it was before the consume recorded in last
    file,       \* the HDF5 container of base.py: klengths and datasets
    doc,        \* the YAML document of __init__.py's write
    loaded,     \* the counter the most recent read constructed
    written,    \* what each completed write stored, by k
    gen         \* the generator list(iter_kmers(seq, k)) is draining

vars == <<kind, counters, sketch, digest, truth, last, snap, file, doc, loaded,
          written, gen>>

sketchVars == <<sketch, digest, truth>>
ioVars == <<file, doc, loaded, written>>

(***************************************************************************)
(* Bounds of the model.                                                    *)
(***************************************************************************)
\* Largest k-mer length a counter is constructed with.
MaxK == 2
\* Largest value a slot of an exact counter may reach (guards consume / add).
MaxCount == 2
\* Longest of the enumerated sequences handed to iter_kmers directly.
MaxSeqLen == 3

(***************************************************************************)
(* Sequences.  A sequence is a tuple of one-letter strings; N stands for   *)
(* any symbol outside the alphabet.                                        *)
(***************************************************************************)
A == "A"
C == "C"
G == "G"
T == "T"
N == "N"

\* The default alphabet argument 'ACGT' of both counter constructors.
DefaultAlphabet == <<A, C, G, T>>

\* De Bruijn sequences of the tests: 'ACGT' for k = 1, K2_DBS, K3_DBS.
K1_DBS == <<A, C, G, T>>
K2_DBS == <<A,A,C,A,G,A,T,C,C,G,C,T,G,G,T,T,A>>
K3_DBS ==
    <<A,A,A,C,A,A,G,A,A,T,A,C,C,A,C,G,A,C,T,A,G,C,A,G,G,A,G,T,A,T,C,A,T,
      G,A,T,T,C,C,C,G,C,C,T,C,G,G,C,G,T,C,T,G,C,T,T,G,G,G,T,G,T,T,T,A,A>>

DeBruijn(k) ==
    CASE k = 1 -> K1_DBS
      [] k = 2 -> K2_DBS
      [] k = 3 -> K3_DBS
      [] OTHER -> <<>>

\* The sequences handed to consume and unconsume.
Seqs(k) ==
    { DeBruijn(k),
      <<A, C, G, T, A>>,
      <<A, C, N, A, C>> }

Rep(sym, n) == [i \in 1 .. n |-> sym]

\* The raw strings handed to get and set: of length k, longer and shorter.
Queries(k) == { Rep(A, k), Rep(A, k - 1) \o <<C>>, Rep(A, k + 1), Rep(A, k - 1) }

(***************************************************************************)
(* The k-mer codec (pymer._hash: iter_kmers).                              *)
(***************************************************************************)
Pos(sym) == CHOOSE i \in 0 .. Len(DefaultAlphabet) - 1 : DefaultAlphabet[i + 1] = sym

InAlphabet(sym) == \E i \in 1 .. Len(DefaultAlphabet) : DefaultAlphabet[i] = sym

RECURSIVE Pow(_, _)
Pow(b, e) == IF e = 0 THEN 1 ELSE b * Pow(b, e - 1)

NumKmers(k) == Pow(Len(DefaultAlphabet), k)

\* Mixed-radix identifier of a window of alphabet symbols.
RECURSIVE KmerId(_)
KmerId(w) ==
    IF w = <<>> THEN 0
    ELSE KmerId(SubSeq(w, 1, Len(w) - 1)) * Len(DefaultAlphabet) + Pos(w[Len(w)])

\* An iteration that ends at the first window holding a foreign symbol.
RECURSIVE IterFromStop(_, _, _)
IterFromStop(seq, k, i) ==
    IF i + k - 1 > Len(seq) THEN <<>>
    ELSE LET w == SubSeq(seq, i, i + k - 1)
         IN  IF \A j \in 1 .. k : InAlphabet(w[j])
             THEN <<KmerId(w)>> \o IterFromStop(seq, k, i + 1)
             ELSE <<>>

RECURSIVE IterFrom(_, _, _)
IterFrom(seq, k, i) ==
    IF i + k - 1 > Len(seq) THEN <<>>
    ELSE LET w == SubSeq(seq, i, i + k - 1)
         IN  (IF \A j \in 1 .. k : InAlphabet(w[j]) THEN <<KmerId(w)>> ELSE <<>>)
                 \o IterFrom(seq, k, i + 1)

\* iter_kmers(seq, k): the identifiers of the valid windows, in order.
IterKmers(seq, k) == IterFrom(seq, k, 1)

(***************************************************************************)
(* ExactKmerCounter.                                                       *)
(***************************************************************************)
Names == {"kc", "other"}

\* np.zeros(len(alphabet) ** k, dtype=int)
ExactZeros(k) == [i \in 0 .. NumKmers(k) - 1 |-> 0]

ExactNew(k) == [k |-> k, array |-> ExactZeros(k)]

\* __getitem__ with an integer item.
ExactGetId(array, item) == array[item]

\* __setitem__ with an integer item.
ExactSetId(array, item, val) == [array EXCEPT ![item] = val]

Max(a, b) == IF a >= b THEN a ELSE b

\* A consume that assigns 1 to the slot instead of adding 1 to it.
RECURSIVE ExactConsumeIdsAssign(_, _)
ExactConsumeIdsAssign(array, ids) ==
    IF ids = <<>> THEN array
    ELSE ExactConsumeIdsAssign(ExactSetId(array, Head(ids), 1), Tail(ids))

\* consume: self[kmer] += 1 for every kmer of iter_kmers(seq, k).
RECURSIVE ExactConsumeIds(_, _)
ExactConsumeIds(array, ids) ==
    IF ids = <<>> THEN array
    ELSE ExactConsumeIds(
             ExactSetId(array, Head(ids), ExactGetId(array, Head(ids)) + 1),
             Tail(ids))

ExactConsume(c, seq) ==
    [c EXCEPT !.array = ExactConsumeIds(c.array, IterKmers(seq, c.k))]

\* An unconsume that stops one k-mer short of the end of the sequence.
RECURSIVE ExactUnconsumeIdsShort(_, _)
ExactUnconsumeIdsShort(array, ids) ==
    IF Len(ids) <= 1 THEN array
    ELSE ExactUnconsumeIdsShort(
             ExactSetId(array, Head(ids),
                        Max(ExactGetId(array, Head(ids)) - 1, 0)),
             Tail(ids))

\* unconsume: self[kmer] = max(self[kmer] - 1, 0) for every kmer.
RECURSIVE ExactUnconsumeIds(_, _)
ExactUnconsumeIds(array, ids) ==
    IF ids = <<>> THEN array
    ELSE ExactUnconsumeIds(
             ExactSetId(array, Head(ids),
                        Max(ExactGetId(array, Head(ids)) - 1, 0)),
             Tail(ids))

ExactUnconsume(c, seq) ==
    [c EXCEPT !.array = ExactUnconsumeIds(c.array, IterKmers(seq, c.k))]

\* The guard of __add__ and __sub__ (alphabets are the default in this model).
Incompatible(c, d) == c.k # d.k

\* __add__: x.array = self.array.copy(); x.array += other.array
ExactAdd(c, d) ==
    [k |-> c.k, array |-> [i \in DOMAIN c.array |-> c.array[i] + d.array[i]]]

\* A subtraction that does not clip.
ExactSubSigned(c, d) ==
    [k |-> c.k, array |-> [i \in DOMAIN c.array |-> c.array[i] - d.array[i]]]

\* __sub__: x.array -= other.array; x.array = x.array.clip(min=0)
ExactSub(c, d) ==
    [k |-> c.k,
     array |-> [i \in DOMAIN c.array |-> Max(c.array[i] - d.array[i], 0)]]

RECURSIVE SumTo(_, _)
SumTo(array, n) == IF n < 0 THEN 0 ELSE array[n] + SumTo(array, n - 1)

\* __len__: self.array.sum()
ExactLen(c) == SumTo(c.array, NumKmers(c.k) - 1)

\* The outcome of a call: a value returned, an exception object returned as
\* the value, or an exception raised.
Returned(v)    == [how |-> "returned", exc |-> "none", val |-> v]
ReturnedExc(e) == [how |-> "returned", exc |-> e, val |-> 0]
Raised(e)      == [how |-> "raised", exc |-> e, val |-> 0]

\* The messages of the ValueErrors.
LengthMsg  == "ValueError: KmerCounter must be queried with k-length kmers"
AddMsg     == "ValueError: Cannot add KmerCounters unless k and alphabet are equal."

\* __getitem__ with a str item.
ExactGetStr(c, item) ==
    IF Len(item) # c.k THEN ReturnedExc(LengthMsg)
    ELSE IF IterKmers(item, c.k) = <<>> THEN Raised("StopIteration")
    ELSE Returned(ExactGetId(c.array, Head(IterKmers(item, c.k))))

\* __setitem__ with a str item: kmer_hash is not a name of the module.
ExactSetStr(c, item, val) ==
    IF Len(item) # c.k THEN [counter |-> c, ret |-> Returned(0)]
    ELSE [counter |-> c, ret |-> Raised("NameError")]


(***************************************************************************)
(* CountMinKmerCounter.                                                    *)
(***************************************************************************)
\* Bits of the sketch's cell type (dtype); the cells hold 0 .. 2^CellBits - 1.
CellBits == 2

DtypeMax == Pow(2, CellBits) - 1

\* The sketchshape arguments (num_tables, table_size) of the model.
SketchShapes == { <<1, 2>>, <<2, 2>> }

Cells(shape) == (0 .. shape[1] - 1) \X (0 .. shape[2] - 1)

\* np.zeros(sketchshape, dtype=dtype)
SketchNew(k, shape) ==
    [k |-> k, num_tables |-> shape[1], table_size |-> shape[2],
     array |-> [cell \in Cells(shape) |-> 0]]

\* idx = xxh64(struct.pack('Q', item), seed=tab).intdigest(); idx %= table_size
\* xxh64 is a library function: digest is some fixed function of (seed, item),
\* chosen when the run starts and never changed.
SketchIdx(t, tab, item) == digest[<<tab, item>>] % t.table_size

\* Storing a value in a cell of the unsigned dtype keeps its low bits: the
\* maximum plus one is stored as 0.
Cast(val) == val % Pow(2, CellBits)

\* __getitem__ with an integer item: the loop over the tables.
RECURSIVE SketchGetFrom(_, _, _, _)
SketchGetFrom(t, item, tab, mx) ==
    IF tab >= t.num_tables THEN mx
    ELSE SketchGetFrom(t, item, tab + 1,
                       Max(mx, t.array[<<tab, SketchIdx(t, tab, item)>>]))

SketchGetId(t, item) == SketchGetFrom(t, item, 0, 0)

\* __setitem__ with an integer item: every table's cell is assigned val.
SketchSetId(t, item, val) ==
    [t EXCEPT !.array =
        [cell \in DOMAIN t.array |->
            IF cell[2] = SketchIdx(t, cell[1], item) THEN Cast(val)
            ELSE t.array[cell]]]

\* consume: self[kmer] += 1 for every kmer of iter_kmers(seq, k).
RECURSIVE SketchConsumeIds(_, _)
SketchConsumeIds(t, ids) ==
    IF ids = <<>> THEN t
    ELSE SketchConsumeIds(
             SketchSetId(t, Head(ids), SketchGetId(t, Head(ids)) + 1),
             Tail(ids))

SketchConsume(t, seq) == SketchConsumeIds(t, IterKmers(seq, t.k))

\* unconsume: self[kmer] = max(self[kmer] - 1, 0) for every kmer.
RECURSIVE SketchUnconsumeIds(_, _)
SketchUnconsumeIds(t, ids) ==
    IF ids = <<>> THEN t
    ELSE SketchUnconsumeIds(
             SketchSetId(t, Head(ids), Max(SketchGetId(t, Head(ids)) - 1, 0)),
             Tail(ids))

SketchUnconsume(t, seq) == SketchUnconsumeIds(t, IterKmers(seq, t.k))

\* __getitem__ with a str item.
SketchGetStr(t, item) ==
    IF Len(item) # t.k THEN ReturnedExc(LengthMsg)
    ELSE IF IterKmers(item, t.k) = <<>> THEN Raised("StopIteration")
    ELSE Returned(SketchGetId(t, Head(IterKmers(item, t.k))))

\* __setitem__ with a str item: kmer_hash is not a name of the module.
SketchSetStr(t, item, val) ==
    IF Len(item) # t.k THEN [counter |-> t, ret |-> Returned(0)]
    ELSE [counter |-> t, ret |-> Raised("NameError")]

\* The sequences handed to the sketch's consume and unconsume.
SketchSeqs(k) ==
    { Rep(A, k),
      Rep(A, k - 1) \o <<C>>,
      Rep(A, k + 1),
      Rep(A, k) \o <<N>> \o Rep(A, k - 1) \o <<C>> }

Range(f) == { f[i] : i \in DOMAIN f }

\* The k-mer identifiers the sketch's inputs produce.
SketchIds(k) == UNION { Range(IterKmers(s, k)) : s \in SketchSeqs(k) \cup Queries(k) }

\* The number of windows of seq that are the k-mer with identifier id.
Occurrences(seq, k, id) ==
    Cardinality({ i \in 1 .. Len(seq) - k + 1 :
                    /\ \A j \in i .. i + k - 1 : InAlphabet(seq[j])
                    /\ KmerId(SubSeq(seq, i, i + k - 1)) = id })

(***************************************************************************)
(* Serialisation: BaseCounter.write / BaseCounter.read, in the YAML form   *)
(* of pymer/__init__.py and the HDF5 form of pymer/base.py.                *)
(***************************************************************************)
\* BaseCounter.file_version of pymer/__init__.py and of pymer/base.py.
InitFileVersion == 1
BaseFileVersion == 2

\* The file_version of the releases whose files a reader may be handed.
Releases == InitFileVersion - 1 .. BaseFileVersion + 1

\* A str, its utf-8 bytes, and the list of its letters.
Str(text)   == [type |-> "str", text |-> text]
Utf8(text)  == [type |-> "bytes", text |-> text]
List(text)  == [type |-> "list", text |-> text]

\* val.encode('utf-8') if isinstance(val, str)
Encode(val) == IF val.type = "str" THEN Utf8(val.text) ELSE val

\* attrs[...].decode('utf8')
Decode(val) == Str(val.text)

\* list(self.alphabet)
ListOf(val) == List(val.text)

ExactClass  == "ExactKmerCounter"
SketchClass == "CountMinKmerCounter"
Classes == {ExactClass, SketchClass}

\* The default sketchshape of CountMinKmerCounter.__init__.
DefaultSketchShape == <<4, 100000>>

\* A constructor call that leaves the alphabet argument at its default.
ConstructDefault(cls, k, alphabet, array) ==
    [class |-> cls, k |-> k, alphabet |-> Str(DefaultAlphabet), array |-> array,
     shape |-> IF cls = SketchClass THEN DefaultSketchShape ELSE <<>>]

\* cls(k, alphabet=alphabet, array=array): the constructors given an array.
Construct(cls, k, alphabet, array) ==
    [class |-> cls, k |-> k, alphabet |-> alphabet, array |-> array,
     shape |-> IF cls = SketchClass THEN DefaultSketchShape ELSE <<>>]

NoCounter == [class |-> "none"]

\* An array as the container stores it: its shape and its values in order.
NdArray(shape, data) == [shape |-> shape, data |-> data]

\* The array of an exact counter that consumed seq.
Counted(k, seq) ==
    NdArray(<<NumKmers(k)>>,
            [i \in 1 .. NumKmers(k) |-> ExactConsume(ExactNew(k), seq).array[i - 1]])

\* The counters handed to write: exact ones over 'ACGT' and over 'NOTDNA',
\* and a sketch, each of every k.
IOCounters ==
    UNION { { [class |-> ExactClass, k |-> k, alphabet |-> Str(DefaultAlphabet),
               array |-> Counted(k, <<A, C, N, A, C>>),
               shape |-> <<>>],
              [class |-> ExactClass, k |-> k,
               alphabet |-> Str(<<N, "O", T, "D", N, A>>),
               array |-> NdArray(<<Pow(6, k)>>, [i \in 1 .. Pow(6, k) |-> 0]),
               shape |-> <<>>],
              [class |-> SketchClass, k |-> k, alphabet |-> Str(DefaultAlphabet),
               array |-> NdArray(<<2, 2>>, <<k, 0, 0, k + 1>>),
               shape |-> <<2, 2>>] } : k \in 1 .. MaxK }

\* _arraypath: "counts_{}-mer".format(kmersize)
ArrayPath(kmersize) == <<"counts_", kmersize, "-mer">>

\* h5py.File(filename, 'a') on a name that does not exist yet.
EmptyFile == [klengths |-> <<>>, dsets |-> <<>>]

\* h5f.attrs.get("klengths", []) + [self.k]: the default [] is a list, which
\* + extends; a stored attribute comes back as an array, to which + adds
\* the k element by element.
KlengthsPlus(klengths, k) ==
    IF klengths = <<>> THEN <<k>>
    ELSE [i \in DOMAIN klengths |-> klengths[i] + k]

\* The dataset write creates: the array and its attributes.
Dataset(c, version) ==
    [data |-> c.array,
     attrs |-> [alphabet |-> Encode(c.alphabet),
                class |-> Encode(Str(c.class)),
                fileversion |-> version,
                pymerversion |-> Encode(Str("version"))]]

\* base.py write, by a release whose file_version is version.
WriteH5(f, c, version) ==
    IF ArrayPath(c.k) \in DOMAIN f.dsets
    THEN [file |-> f, ret |-> Raised("create_dataset: name already exists")]
    ELSE [file |-> [dsets |-> (ArrayPath(c.k) :> Dataset(c, version)) @@ f.dsets,
                    klengths |-> KlengthsPlus(f.klengths, c.k)],
          ret |-> Returned(0)]

NotInFileMsg == "ValueError: Kmer length not in file"
ClassMsg     == "ValueError: Class mismatch"
VersionMsg   == "ValueError: File format version mismatch"

Failed(e) == [ret |-> Raised(e), counter |-> NoCounter]

\* base.py read.
ReadH5(f, cls, kmersize) ==
    IF f.klengths = <<>> THEN Failed("KeyError: klengths")
    ELSE IF kmersize \notin Range(f.klengths) THEN Failed(NotInFileMsg)
    ELSE IF ArrayPath(kmersize) \notin DOMAIN f.dsets THEN Failed("KeyError: dataset")
    ELSE LET dset == f.dsets[ArrayPath(kmersize)]
         IN  IF Decode(dset.attrs.class).text # cls THEN Failed(ClassMsg)
             ELSE IF dset.attrs.fileversion # BaseFileVersion THEN Failed(VersionMsg)
             ELSE [ret |-> Returned(0),
                   counter |-> Construct(cls, kmersize,
                                         Decode(dset.attrs.alphabet), dset.data)]

NoDoc == [class |-> "none"]

\* __init__.py write: the object handed to yaml.dump.
WriteYaml(c, version) ==
    [k |-> c.k, alphabet |-> ListOf(c.alphabet), array |-> c.array,
     class |-> c.class, fileversion |-> version]

\* __init__.py read, of the object yaml.load returns.
ReadYaml(obj, cls) ==
    IF obj.class # cls THEN Failed(ClassMsg)
    ELSE IF obj.fileversion < InitFileVersion THEN Failed(VersionMsg)
    ELSE [ret |-> Returned(0),
          counter |-> Construct(cls, obj.k, obj.alphabet, obj.array)]

(***************************************************************************)
(* The state machine of the exact counters.                                *)
(***************************************************************************)
NoSeq == <<>>

Call(op, name, seq, fresh, undo, ret) ==
    [op |-> op, c |-> name, seq |-> seq, fresh |-> fresh, undo |-> undo,
     ret |-> ret]

NoSnap == [k |-> 0, array |-> <<>>]
NoSketch == [k |-> 0, num_tables |-> 0, table_size |-> 0, array |-> <<>>]
NoTruth == [count |-> <<>>, onlyConsume |-> TRUE]
NoCounters == [n \in Names |-> [k |-> 0, array |-> <<>>]]
NoGen == [seq |-> <<>>, k |-> 0, out |-> <<>>, done |-> TRUE]

InitOthers ==
    /\ last = Call("init", "kc", NoSeq, FALSE, FALSE, Returned(0))
    /\ snap = NoSnap
    /\ file = EmptyFile
    /\ doc = NoDoc
    /\ loaded = NoCounter
    /\ written = <<>>
    /\ gen = NoGen

InitExact ==
    /\ kind = "exact"
    /\ counters \in [Names -> {ExactNew(k) : k \in 1 .. MaxK}]
    /\ sketch = NoSketch
    /\ digest = <<>>
    /\ truth = NoTruth
    /\ InitOthers

Capped(c) == \A i \in DOMAIN c.array : c.array[i] <= MaxCount

Consume(n, seq) ==
    LET c == counters[n]
        d == ExactConsume(c, seq)
    IN  /\ kind = "exact"
        /\ Capped(d)
        /\ counters' = [counters EXCEPT ![n] = d]
        /\ last' = Call("consume", n, seq, c.array = ExactZeros(c.k), FALSE,
                        Returned(0))
        /\ snap' = c
        /\ UNCHANGED <<kind, gen, sketchVars, ioVars>>

Unconsume(n, seq) ==
    LET c == counters[n]
        undo == last.op = "consume" /\ last.c = n /\ last.seq = seq
    IN  /\ kind = "exact"
        /\ counters' = [counters EXCEPT ![n] = ExactUnconsume(c, seq)]
        /\ last' = Call("unconsume", n, seq, FALSE, undo, Returned(0))
        /\ snap' = IF undo THEN snap ELSE NoSnap
        /\ UNCHANGED <<kind, gen, sketchVars, ioVars>>

Add(dst, x, y) ==
    /\ kind = "exact"
    /\ IF Incompatible(counters[x], counters[y])
       THEN /\ last' = Call("add", dst, <<x, y>>, FALSE, FALSE, Raised(AddMsg))
            /\ UNCHANGED counters
       ELSE LET d == ExactAdd(counters[x], counters[y])
            IN  /\ Capped(d)
                /\ counters' = [counters EXCEPT ![dst] = d]
                /\ last' = Call("add", dst, <<x, y>>, FALSE, FALSE, Returned(0))
    /\ snap' = NoSnap
    /\ UNCHANGED <<kind, gen, sketchVars, ioVars>>

Sub(dst, x, y) ==
    /\ kind = "exact"
    /\ IF Incompatible(counters[x], counters[y])
       THEN /\ last' = Call("sub", dst, <<x, y>>, FALSE, FALSE, Raised(AddMsg))
            /\ UNCHANGED counters
       ELSE /\ counters' = [counters EXCEPT
                               ![dst] = ExactSub(counters[x], counters[y])]
            /\ last' = Call("sub", dst, <<x, y>>, FALSE, FALSE, Returned(0))
    /\ snap' = NoSnap
    /\ UNCHANGED <<kind, gen, sketchVars, ioVars>>

GetItem(n, item) ==
    /\ kind = "exact"
    /\ last' = Call("get", n, item, FALSE, FALSE, ExactGetStr(counters[n], item))
    /\ snap' = NoSnap
    /\ UNCHANGED <<kind, gen, counters, sketchVars, ioVars>>

SetItem(n, item, val) ==
    LET r == ExactSetStr(counters[n], item, val)
    IN  /\ kind = "exact"
        /\ counters' = [counters EXCEPT ![n] = r.counter]
        /\ last' = Call("set", n, item, FALSE, FALSE, r.ret)
        /\ snap' = NoSnap
        /\ UNCHANGED <<kind, gen, sketchVars, ioVars>>

\* consume, unconsume and the arithmetic; the counter named kc is the one
\* counted into, and either name takes the result of + and -.
NextExact ==
    \/ \E seq \in Seqs(counters["kc"].k) : Consume("kc", seq)
    \/ \E seq \in Seqs(counters["kc"].k) : Unconsume("kc", seq)
    \/ \E dst, x, y \in Names : Add(dst, x, y)
    \/ \E dst, x, y \in Names : Sub(dst, x, y)

NextExactQuery ==
    \/ \E item \in Queries(counters["kc"].k) : GetItem("kc", item)
    \/ \E item \in Queries(counters["kc"].k) : SetItem("kc", item, 1)

SpecExact == InitExact /\ [][NextExact]_vars

(***************************************************************************)
(* The state machine of the sketch counter.                                *)
(***************************************************************************)
\* The true counts are followed up to the largest value a cell can hold,
\* and until the first unconsume.
SeenCap == DtypeMax

InitSketch ==
    /\ kind = "sketch"
    /\ counters = NoCounters
    /\ sketch \in { SketchNew(k, shape) : k \in 1 .. MaxK, shape \in SketchShapes }
    /\ digest \in [(0 .. sketch.num_tables - 1) \X SketchIds(sketch.k)
                      -> 0 .. sketch.table_size - 1]
    /\ truth = [count |-> [id \in SketchIds(sketch.k) |-> 0], onlyConsume |-> TRUE]
    /\ InitOthers

SkConsume(seq) ==
    LET seen == [id \in DOMAIN truth.count |->
                    truth.count[id] + Occurrences(seq, sketch.k, id)]
    IN  /\ kind = "sketch"
        /\ \A id \in DOMAIN seen : seen[id] <= SeenCap
        /\ sketch' = SketchConsume(sketch, seq)
        /\ truth' = IF truth.onlyConsume THEN [truth EXCEPT !.count = seen]
                     ELSE truth
        /\ last' = Call("consume", "sketch", seq, FALSE, FALSE, Returned(0))
        /\ snap' = NoSnap
        /\ UNCHANGED <<kind, gen, counters, digest, ioVars>>

SkUnconsume(seq) ==
    /\ kind = "sketch"
    /\ sketch' = SketchUnconsume(sketch, seq)
    /\ truth' = [count |-> [id \in DOMAIN truth.count |-> 0],
                 onlyConsume |-> FALSE]
    /\ last' = Call("unconsume", "sketch", seq, FALSE, FALSE, Returned(0))
    /\ snap' = NoSnap
    /\ UNCHANGED <<kind, gen, counters, digest, ioVars>>

SkGetItem(item) ==
    /\ kind = "sketch"
    /\ last' = Call("get", "sketch", item, FALSE, FALSE, SketchGetStr(sketch, item))
    /\ snap' = NoSnap
    /\ UNCHANGED <<kind, gen, counters, sketchVars, ioVars>>

SkSetItem(item, val) ==
    LET r == SketchSetStr(sketch, item, val)
    IN  /\ kind = "sketch"
        /\ sketch' = r.counter
        /\ last' = Call("set", "sketch", item, FALSE, FALSE, r.ret)
        /\ snap' = NoSnap
        /\ UNCHANGED <<kind, gen, counters, digest, truth, ioVars>>

NextSketch ==
    \/ \E seq \in SketchSeqs(sketch.k) : SkConsume(seq)
    \/ \E seq \in SketchSeqs(sketch.k) : SkUnconsume(seq)
    \/ \E item \in Queries(sketch.k) : SkGetItem(item)
    \/ \E item \in Queries(sketch.k) : SkSetItem(item, 1)

SpecSketch == InitSketch /\ [][NextSketch]_vars

\* Counters of either class, with the queries by raw string.
Spec == (InitExact \/ InitSketch) /\ [][NextExact \/ NextExactQuery \/ NextSketch]_vars

(***************************************************************************)
(* The state machine of write and read.  kind says which BaseCounter the   *)
(* counters derive from: the YAML one or the HDF5 one.  Both are applied   *)
(* to the counter classes of pymer/__init__.py, whose constructors take    *)
(* the array argument that read passes.                                    *)
(***************************************************************************)
\* The k-lengths asked of read: those write can store, and one more.
ReadKs == 1 .. MaxK + 1

InitIO ==
    /\ kind \in {"yaml", "hdf5"}
    /\ counters = NoCounters
    /\ sketch = NoSketch
    /\ digest = <<>>
    /\ truth = NoTruth
    /\ InitOthers

Stored(c, version) == [counter |-> c, version |-> version]

H5Write(c, version) ==
    LET r == WriteH5(file, c, version)
    IN  /\ kind = "hdf5"
        /\ file' = r.file
        /\ written' = IF r.ret.how = "returned"
                       THEN (c.k :> Stored(c, version)) @@ written
                       ELSE written
        /\ loaded' = NoCounter
        /\ last' = Call("write", c.class, <<c.k>>, FALSE, FALSE, r.ret)
        /\ UNCHANGED <<kind, gen, counters, sketchVars, snap, doc>>

H5Read(cls, kmersize) ==
    LET r == ReadH5(file, cls, kmersize)
    IN  /\ kind = "hdf5"
        /\ loaded' = r.counter
        /\ last' = Call("read", cls, <<kmersize>>, FALSE, FALSE, r.ret)
        /\ UNCHANGED <<kind, gen, counters, sketchVars, snap, file, doc, written>>

YamlWrite(c, version) ==
    /\ kind = "yaml"
    /\ doc' = WriteYaml(c, version)
    /\ written' = (c.k :> Stored(c, version))
    /\ loaded' = NoCounter
    /\ last' = Call("write", c.class, <<c.k>>, FALSE, FALSE, Returned(0))
    /\ UNCHANGED <<kind, gen, counters, sketchVars, snap, file>>

YamlRead(cls) ==
    LET r == ReadYaml(doc, cls)
    IN  /\ kind = "yaml"
        /\ doc # NoDoc
        /\ loaded' = r.counter
        /\ last' = Call("read", cls, <<doc.k>>, FALSE, FALSE, r.ret)
        /\ UNCHANGED <<kind, gen, counters, sketchVars, snap, file, doc, written>>

NextIO ==
    \/ \E c \in IOCounters, version \in Releases : H5Write(c, version)
    \/ \E cls \in Classes, kmersize \in ReadKs : H5Read(cls, kmersize)
    \/ \E c \in IOCounters, version \in Releases : YamlWrite(c, version)
    \/ \E cls \in Classes : YamlRead(cls)

SpecIO == InitIO /\ [][NextIO]_vars

(***************************************************************************)
(* The state machine of the codec: list(iter_kmers(seq, k)) drains the     *)
(* generator, one identifier for each next(), until it is exhausted.       *)
(***************************************************************************)
Symbols == {A, C, G, T, N}

\* The sequence of test_iter_kmers_ns.
NsSeq == <<A, C, G, T, N, A, C, G, T, N, C, G>>

\* Every sequence of up to MaxSeqLen symbols, and those of the tests.
CodecSeqs ==
    UNION { [1 .. n -> Symbols] : n \in 0 .. MaxSeqLen } \cup {K2_DBS, NsSeq}

\* The k of the tests of iter_kmers: up to one more than the counters' k.
CodecKs == 1 .. MaxK + 1

InitCodec ==
    /\ kind = "codec"
    /\ counters = NoCounters
    /\ sketch = NoSketch
    /\ digest = <<>>
    /\ truth = NoTruth
    /\ InitOthers

\* iter_kmers(seq, k): the generator of the run, nothing yielded yet.
IterKmersCall(seq, k) ==
    /\ kind = "codec"
    /\ gen = NoGen
    /\ gen' = [seq |-> seq, k |-> k, out |-> <<>>, done |-> FALSE]
    /\ UNCHANGED <<kind, counters, sketchVars, last, snap, ioVars>>

\* next() on the generator: the next identifier, or exhaustion.
GenNext ==
    LET ids == IterKmers(gen.seq, gen.k)
    IN  /\ kind = "codec"
        /\ ~gen.done
        /\ gen' = IF Len(gen.out) < Len(ids)
                  THEN [gen EXCEPT !.out = Append(@, ids[Len(@) + 1])]
                  ELSE [gen EXCEPT !.done = TRUE]
        /\ UNCHANGED <<kind, counters, sketchVars, last, snap, ioVars>>

NextCodec ==
    \/ \E seq \in CodecSeqs, k \in CodecKs : IterKmersCall(seq, k)
    \/ GenNext

SpecCodec == InitCodec /\ [][NextCodec]_vars

(***************************************************************************)
(* The claims about the codec.                                             *)
(***************************************************************************)
\* The starts of the windows of k symbols that are all of the alphabet.
ValidStarts(seq, k) ==
    { i \in 1 .. Len(seq) - k + 1 : \A j \in i .. i + k - 1 : InAlphabet(seq[j]) }

\* The n-th smallest member of a set of starts.
NthStart(starts, n) ==
    CHOOSE i \in starts : Cardinality({ j \in starts : j < i }) = n - 1

\* The mixed-radix value of a window: its symbols' positions in the alphabet
\* as digits, the first symbol the most significant.
RECURSIVE RadixSum(_, _)
RadixSum(w, j) ==
    IF j > Len(w) THEN 0
    ELSE Pos(w[j]) * Pow(Len(DefaultAlphabet), Len(w) - j) + RadixSum(w, j + 1)

MixedRadix(w) == RadixSum(w, 1)

\* C11: iter_kmers(seq, k) yields, in sequence order, exactly the mixed-radix
\* identifiers of the windows of k alphabet symbols: a window over a foreign
\* symbol yields nothing, the valid windows after it are still yielded, a
\* sequence without foreign symbols yields len(seq) - k + 1 identifiers, and
\* 'ACGTNACGTNCG' with k = 3 yields those of ACG, CGT, ACG, CGT.
C11_ValidWindowsInOrder ==
    (kind = "codec" /\ gen.k > 0) =>
        LET starts == ValidStarts(gen.seq, gen.k)
        IN  /\ Len(gen.out) <= Cardinality(starts)
            /\ \A n \in 1 .. Len(gen.out) :
                   gen.out[n] =
                       MixedRadix(SubSeq(gen.seq, NthStart(starts, n),
                                         NthStart(starts, n) + gen.k - 1))
            /\ gen.done =>
                   /\ Len(gen.out) = Cardinality(starts)
                   /\ (\A j \in 1 .. Len(gen.seq) : InAlphabet(gen.seq[j])) =>
                          Len(gen.out) = Max(Len(gen.seq) - gen.k + 1, 0)
                   /\ (gen.seq = NsSeq /\ gen.k = 3) =>
                          /\ gen.out = <<6, 27, 6, 27>>
                          /\ gen.out = <<MixedRadix(<<A, C, G>>),
                                         MixedRadix(<<C, G, T>>),
                                         MixedRadix(<<A, C, G>>),
                                         MixedRadix(<<C, G, T>>)>>

\* The generator of the test with the foreign symbols, drained.
C11_Witness ==
    /\ kind = "codec" /\ gen.done
    /\ gen.seq = NsSeq /\ gen.k = 3
    /\ Len(gen.out) = 4

(***************************************************************************)
(* The claims about the sketch counter.                                    *)
(***************************************************************************)
\* C1: after any sequence of consume calls on a fresh sketch, the estimate
\* of every k-mer is at least the number of times the k-mer was consumed.
C1_EstimateNeverUndercounts ==
    (kind = "sketch" /\ truth.onlyConsume) =>
        \A id \in DOMAIN truth.count :
            SketchGetId(sketch, id) >= truth.count[id]

\* The cells of a k-mer: one per table row, at the row's hashed column.
RowCells(t, item) ==
    { t.array[<<tab, SketchIdx(t, tab, item)>>] : tab \in 0 .. t.num_tables - 1 }

SetMin(S) == CHOOSE m \in S : \A x \in S : m <= x

\* C2: the estimate of a k-mer is the minimum of its cells over the rows.
C2_EstimateIsMinimum ==
    kind = "sketch" =>
        \A id \in SketchIds(sketch.k) :
            SketchGetId(sketch, id) = SetMin(RowCells(sketch, id))

\* C3: a consume never leaves a cell smaller than it was: a cell at the
\* maximum of the cell type stays there, and no cell rolls over.
C3_SaturationNeverWraps ==
    [][(kind = "sketch" /\ last'.op = "consume") =>
          \A cell \in DOMAIN sketch.array :
              sketch'.array[cell] >= sketch.array[cell]]_vars

\* C12: a consume of one k-mer raises each of the k-mer's cells, one per
\* table row at the row's hashed column, by exactly 1 whatever the other
\* rows hold (a cell at the cell type's maximum aside), and leaves every
\* other cell as it was.
C12_IncrementRaisesEachRowByOne ==
    [][(kind = "sketch" /\ last'.op = "consume"
            /\ Len(IterKmers(last'.seq, sketch.k)) = 1) =>
          LET item == Head(IterKmers(last'.seq, sketch.k))
          IN  \A cell \in DOMAIN sketch.array :
                  IF cell[2] = SketchIdx(sketch, cell[1], item)
                  THEN sketch.array[cell] < DtypeMax =>
                           sketch'.array[cell] = sketch.array[cell] + 1
                  ELSE sketch'.array[cell] = sketch.array[cell]]_vars

\* The k of the counter that get and set are called on.
QueriedK == IF kind = "exact" THEN counters["kc"].k ELSE sketch.k

\* C9: get and set with a raw string whose length is not k raise the length
\* error to the caller and leave the counter's array as it was.
C9_WrongLengthRaises ==
    [][(last'.op \in {"get", "set"} /\ Len(last'.seq) # QueriedK) =>
          /\ last'.ret = Raised(LengthMsg)
          /\ counters' = counters
          /\ sketch' = sketch]_vars

(***************************************************************************)
(* The claims about the exact counter.                                     *)
(***************************************************************************)
\* Every string of k alphabet symbols.
AllKmers(k) == [1 .. k -> Range(DefaultAlphabet)]

\* The number of windows of seq that are the string w.
WindowsEqual(seq, w) ==
    Cardinality({ i \in 1 .. Len(seq) - Len(w) + 1 :
                    SubSeq(seq, i, i + Len(w) - 1) = w })

\* The number of windows of seq made of alphabet symbols only.
ValidWindows(seq, k) ==
    Cardinality({ i \in 1 .. Len(seq) - k + 1 :
                    \A j \in i .. i + k - 1 : InAlphabet(seq[j]) })

\* C5: after consume(seq) on a zero counter, get(kmer) is the number of
\* windows of seq equal to kmer and total() the number of valid windows; for
\* a de Bruijn sequence every k-mer has count 1 and total() is 4^k.
C5_ConsumeCountsWindows ==
    (kind = "exact" /\ last.op = "consume" /\ last.fresh) =>
        LET c == counters[last.c]
        IN  /\ \A w \in AllKmers(c.k) :
                   ExactGetStr(c, w) = Returned(WindowsEqual(last.seq, w))
            /\ ExactLen(c) = ValidWindows(last.seq, c.k)
            /\ last.seq = DeBruijn(c.k) =>
                   /\ \A w \in AllKmers(c.k) : ExactGetStr(c, w) = Returned(1)
                   /\ ExactLen(c) = Pow(4, c.k)

C5_Witness ==
    /\ kind = "exact" /\ last.op = "consume" /\ last.fresh
    /\ last.seq = K2_DBS
    /\ counters[last.c].k = 2
    /\ ExactLen(counters[last.c]) = 16

\* C6: no slot of an exact counter is ever negative; c - c is all zero, and
\* so is (c - c) - c.
C6_SlotsNeverNegative ==
    kind = "exact" =>
        /\ \A n \in Names : \A i \in DOMAIN counters[n].array :
               counters[n].array[i] >= 0
        /\ (last.op = "sub" /\ last.ret.how = "returned"
                /\ last.seq[1] = last.seq[2]) =>
               counters[last.c].array = ExactZeros(counters[last.c].k)
        /\ \A n \in Names :
               LET c == counters[n]
               IN  /\ ExactSub(c, c).array = ExactZeros(c.k)
                   /\ ExactSub(ExactSub(c, c), c).array = ExactZeros(c.k)

\* A subtraction that was clipped: other - kc with kc above other somewhere.
C6_Witness ==
    /\ kind = "exact" /\ last.op = "sub" /\ last.ret.how = "returned"
    /\ last.c = "other" /\ last.seq = <<"other", "kc">>
    /\ counters["other"].array = ExactZeros(counters["other"].k)
    /\ \E i \in DOMAIN counters["kc"].array : counters["kc"].array[i] = MaxCount

\* C7: consume(s) followed at once by unconsume(s) leaves every slot as it
\* was before the consume.
C7_UnconsumeUndoesConsume ==
    (kind = "exact" /\ last.op = "unconsume" /\ last.undo) =>
        counters[last.c] = snap

C7_Witness ==
    /\ kind = "exact" /\ last.op = "unconsume" /\ last.undo
    /\ IterKmers(last.seq, snap.k) # <<>>
    /\ \E i \in DOMAIN snap.array : snap.array[i] > 0
    /\ \E i \in DOMAIN snap.array : snap.array[i] = 0

(***************************************************************************)
(* The claims about write and read.                                        *)
(***************************************************************************)
\* The same array contents, k and alphabet (its letters in order, as the
\* tests compare alphabets).
SameCounter(r, c) ==
    /\ r.array = c.array
    /\ r.k = c.k
    /\ ListOf(r.alphabet) = ListOf(c.alphabet)

\* What read makes, by the class of c, of the destination as it is.
ReadBack(c) ==
    IF kind = "hdf5" THEN ReadH5(file, c.class, c.k) ELSE ReadYaml(doc, c.class)

C8_WritesAccumulate ==
    (kind = "hdf5" /\ written # <<>>) =>
        /\ Range(file.klengths) = DOMAIN written
        /\ \A k \in DOMAIN written :
               written[k].version = BaseFileVersion =>
                   /\ ReadBack(written[k].counter).ret.how = "returned"
                   /\ ReadBack(written[k].counter).counter.array
                          = written[k].counter.array
        /\ \A k \in ReadKs \ DOMAIN written : \A cls \in Classes :
               ReadH5(file, cls, k).ret = Raised(NotInFileMsg)

\* The read recorded in last got as far as the check of the version: it
\* found the dataset (the document) and its class is the reader's.
ReachedVersionCheck ==
    IF kind = "yaml" THEN doc.class = last.c
    ELSE /\ last.seq[1] \in Range(file.klengths)
         /\ ArrayPath(last.seq[1]) \in DOMAIN file.dsets
         /\ Decode(file.dsets[ArrayPath(last.seq[1])].attrs.class).text = last.c

\* The fileversion stored where that read looked.
StoredVersion ==
    IF kind = "yaml" THEN doc.fileversion
    ELSE file.dsets[ArrayPath(last.seq[1])].attrs.fileversion

ReaderVersion == IF kind = "yaml" THEN InitFileVersion ELSE BaseFileVersion

\* C10: read fails with the version mismatch error whenever the stored
\* fileversion is not the reader's, lower or higher, and constructs nothing.
C10_VersionMismatchFails ==
    (kind \in {"yaml", "hdf5"} /\ last.op = "read" /\ ReachedVersionCheck
        /\ StoredVersion # ReaderVersion) =>
        /\ last.ret = Raised(VersionMsg)
        /\ loaded = NoCounter

====
